---- MODULE Spec2Model ----
(***************************************************************************)
(* Model of generate-alloy-targets.py: the Nomad -> Alloy discovery        *)
(* generator.  One process (main) plus the asynchronous signal handler.    *)
(*                                                                         *)
(* Strings are sequences of pieces.  A piece is a one-character string or  *)
(* a literal run of characters that holds no double quote and no           *)
(* backslash, so that str.replace on the string acts piece by piece.       *)
(* A dict is a function whose DOMAIN is the set of keys that are present.  *)
(***************************************************************************)
EXTENDS Integers, Sequences, FiniteSets, TLC

VARIABLES
    CONTINUOUS_MODE,   \* line 35, fixed at start-up
    REFRESH_INTERVAL,  \* line 32, fixed at start-up
    running,           \* line 38, the shutdown flag
    pc,                \* position of main()
    node_id,           \* main local, line 237
    iteration,         \* main local, line 240
    allocations,       \* main local, line 248
    targets,           \* main local, line 252
    config_lines,      \* write_discovery_file local, lines 183-209
    sleep_remaining,   \* main local, line 265
    sleep_time,        \* main local, line 267
    file,              \* content of OUTPUT_FILE as a reader sees it
    file_before,       \* content of OUTPUT_FILE when the current write began
    exit_code,         \* process exit status, -1 while the process lives
    stdout,            \* kinds of lines printed to standard output
    stderr,            \* kinds of lines printed to standard error
    detail_requests,   \* number of GETs of /v1/allocation/<id>
    listing_requests,  \* node ids of the GETs of /v1/node/<id>/allocations
    listing_failed,    \* the listing request of the current cycle raised
    signal_pc,         \* where main() was when the first signal arrived
    waited,            \* seconds slept since the first signal arrived
    label_value,       \* escaping: a label value (str(value), line 201)
    label_escaped,     \* escaping: escaped_value (line 201)
    label_phase,       \* escaping: "raw" or "escaped"
    url,               \* make_http_request: its argument
    unix_socket_path,  \* make_http_request local, line 87
    url_path,          \* make_http_request local, line 88
    url_phase          \* make_http_request: "raw", "split" or "raised"

vars == <<CONTINUOUS_MODE, REFRESH_INTERVAL, running, pc, node_id, iteration,
          allocations, targets, config_lines, sleep_remaining, sleep_time, file, file_before,
          exit_code, stdout, stderr, detail_requests, listing_requests,
          listing_failed, signal_pc, waited, label_value, label_escaped,
          label_phase, url, unix_socket_path, url_path, url_phase>>

----------------------------------------------------------------------------
(* Bounds of the model *)

\* cycles of the main loop that the model follows
MaxIterations == 2
\* longest label value of the escaping specification
MaxLen == 4
\* longest allocation list of the mapper specification
MaxAllocs == 2
\* most segments of a URL of the URL specification
MaxSegments == 4

----------------------------------------------------------------------------
(* Strings *)

DQUOTE == "\""
BACKSLASH == "\\"

\* characters of the label values the escaping specification enumerates
Alphabet == {"a", DQUOTE, BACKSLASH}

RECURSIVE StringsUpTo(_)
StringsUpTo(n) ==
    IF n = 0 THEN {<<>>}
    ELSE LET shorter == StringsUpTo(n - 1)
         IN  shorter \cup {Append(s, c) : s \in {t \in shorter : Len(t) = n - 1},
                                          c \in Alphabet}

\* s.replace(old, new) for a one-character old: replaced[i] is the result for
\* the first i characters
Replace(s, old, new) ==
    LET replaced[i \in 0..Len(s)] ==
            IF i = 0 THEN <<>>
            ELSE replaced[i - 1] \o (IF s[i] = old THEN new ELSE <<s[i]>>)
    IN  replaced[Len(s)]

\* line 201 with the two passes swapped
EscapeQuoteFirst(s) ==
    Replace(Replace(s, DQUOTE, <<BACKSLASH, DQUOTE>>),
            BACKSLASH, <<BACKSLASH, BACKSLASH>>)

\* line 201: str(value).replace('\\', '\\\\').replace('"', '\\"')
Escape(s) ==
    Replace(Replace(s, BACKSLASH, <<BACKSLASH, BACKSLASH>>),
            DQUOTE, <<BACKSLASH, DQUOTE>>)

\* sep.join(parts)
Join(parts, sep) ==
    LET joined[i \in 0..Len(parts)] ==
            IF i = 0 THEN <<>>
            ELSE IF i = 1 THEN parts[1]
            ELSE joined[i - 1] \o sep \o parts[i]
    IN  joined[Len(parts)]

----------------------------------------------------------------------------
(* Configuration and JSON values *)

\* line 26, the default "/var/nomad/alloc"
NOMAD_LOG_DIR == <<"/var/nomad/alloc">>

\* dict.get(key, default)
Get(d, key, default) == IF key \in DOMAIN d THEN d[key] ELSE default

\* a JSON null, and a JSON object of which only the key order matters
JsonNull == [kind |-> "null"]
JsonDict(keys) == [kind |-> "dict", keys |-> keys]

JsonList(items) == [kind |-> "list", items |-> items]

----------------------------------------------------------------------------
(* Target Mapper: generate_alloy_targets, lines 126-173 *)

\* line 138 without the status filter
EligibleAnyStatus(status) == TRUE

\* line 138: status in ["running", "pending"]
Eligible(status) == status \in {<<"running">>, <<"pending">>}

\* lines 146-147 with the task directory in place of the shared alloc directory
LogPathPerTask(alloc_id, task_name, stream) ==
    NOMAD_LOG_DIR \o <<"/">> \o alloc_id \o <<"/">> \o task_name \o <<"/logs/">>
        \o task_name \o <<".">> \o stream \o <<".0">>

\* lines 146-147: f"{NOMAD_LOG_DIR}/{alloc_id}/alloc/logs/{task_name}.<stream>.0"
LogPath(alloc_id, task_name, stream) ==
    NOMAD_LOG_DIR \o <<"/">> \o alloc_id \o <<"/alloc/logs/">>
        \o task_name \o <<".">> \o stream \o <<".0">>

\* the keys of a target in insertion order, lines 150-159
TargetKeys ==
    <<"__path__", "job", "task_group", "task", "alloc_id", "namespace",
      "stream", "node_id">>

\* lines 132-135 with the default of the namespace taken from the line above
TargetWithWrongDefault(alloc, task_name, stream) ==
    [__path__   |-> LogPath(Get(alloc, "ID", <<>>), task_name, stream),
     job        |-> Get(alloc, "JobID", <<"unknown">>),
     task_group |-> Get(alloc, "TaskGroup", <<"unknown">>),
     task       |-> task_name,
     alloc_id   |-> Get(alloc, "ID", <<>>),
     namespace  |-> Get(alloc, "Namespace", <<"unknown">>),
     stream     |-> stream,
     node_id    |-> Get(alloc, "NodeID", <<>>)]

\* lines 150-159 and 162-171: one target dict
Target(alloc, task_name, stream) ==
    [__path__   |-> LogPath(Get(alloc, "ID", <<>>), task_name, stream),
     job        |-> Get(alloc, "JobID", <<"unknown">>),
     task_group |-> Get(alloc, "TaskGroup", <<"unknown">>),
     task       |-> task_name,
     alloc_id   |-> Get(alloc, "ID", <<>>),
     namespace  |-> Get(alloc, "Namespace", <<"default">>),
     stream     |-> stream,
     node_id    |-> Get(alloc, "NodeID", <<>>)]

\* lines 144-171 with the stderr target left out
TaskTargetsStdoutOnly(alloc, task_names) ==
    [i \in 1..Len(task_names) |-> Target(alloc, task_names[i], <<"stdout">>)]

\* lines 144-171: the loop over task_states.keys(), stdout then stderr per task
RECURSIVE TaskTargets(_, _)
TaskTargets(alloc, task_names) ==
    IF task_names = <<>> THEN <<>>
    ELSE <<Target(alloc, Head(task_names), <<"stdout">>),
           Target(alloc, Head(task_names), <<"stderr">>)>>
         \o TaskTargets(alloc, Tail(task_names))

\* lines 131-171 for one allocation: the targets it adds, or the AttributeError
\* of None.keys() when TaskStates is present and null
AllocTargets(alloc) ==
    IF ~Eligible(Get(alloc, "ClientStatus", <<"unknown">>))
    THEN [raised |-> FALSE, targets |-> <<>>]
    ELSE LET task_states == Get(alloc, "TaskStates", JsonDict(<<>>))
         IN  IF task_states.kind = "dict"
             THEN [raised |-> FALSE, targets |-> TaskTargets(alloc, task_states.keys)]
             ELSE [raised |-> TRUE, targets |-> <<>>]

\* lines 126-173: the loop over the allocations; an exception ends it
RECURSIVE generate_alloy_targets(_)
generate_alloy_targets(allocs) ==
    IF allocs = <<>> THEN [raised |-> FALSE, targets |-> <<>>]
    ELSE LET first == AllocTargets(Head(allocs))
         IN  IF first.raised THEN [raised |-> TRUE, targets |-> <<>>]
             ELSE LET rest == generate_alloy_targets(Tail(allocs))
                  IN  IF rest.raised THEN [raised |-> TRUE, targets |-> <<>>]
                      ELSE [raised |-> FALSE, targets |-> first.targets \o rest.targets]

----------------------------------------------------------------------------
(* Config Renderer: the text built by write_discovery_file, lines 183-209 *)

\* line 202: f'{key} = "{escaped_value}"'
RenderLabel(key, value) == <<key, " = ", DQUOTE>> \o Escape(value) \o <<DQUOTE>>

\* lines 198-205: one target as a River map
RenderTarget(target) ==
    <<"      {">>
    \o Join([i \in 1..Len(TargetKeys) |->
                RenderLabel(TargetKeys[i], target[TargetKeys[i]])], <<", ">>)
    \o <<"},">>

\* lines 186-194
HeaderLines ==
    << <<"// Nomad log file targets module">>,
       <<"// Generated automatically - do not edit manually">>,
       <<>>,
       <<"declare ", DQUOTE, "nomad_targets", DQUOTE, " {">>,
       <<"  // Export the list of Nomad allocation log targets">>,
       <<"  export ", DQUOTE, "alloc_targets", DQUOTE, " {">>,
       <<"    value = [">> >>

\* lines 207-209
FooterLines == << <<"    ]">>, <<"  }">>, <<"}">> >>

\* lines 183-209: config_lines, which line 213 joins with '\n'
ConfigLines(tgts) ==
    HeaderLines \o [i \in 1..Len(tgts) |-> RenderTarget(tgts[i])] \o FooterLines

\* the output file: absent, or the lines a reader finds in it
NoFile == [exists |-> FALSE, lines |-> <<>>]
FileOf(lines) == [exists |-> TRUE, lines |-> lines]

----------------------------------------------------------------------------
(* Inputs: the answers of the Nomad API *)

\* node ids the allocation-detail answer can carry
NodeIds == {<<"n1">>}

\* task names, one of them with a character that needs escaping
TaskNames == << <<"server">>, <<"side", DQUOTE, "car">> >>

\* allocation ids by position in the listing: Nomad's ids are unique
AllocIds == << <<"abc123">>, <<"x", BACKSLASH, DQUOTE>>, <<"c3">>, <<"d4">> >>

\* the TaskStates of a record: absent ("none"), null, or a dict of 0..2 tasks
TaskShapes == {"none", "null", "dict0", "dict1", "dict2"}

\* the number of tasks of a dict shape
DictSize == [dict0 |-> 0, dict1 |-> 1, dict2 |-> 2]

\* the ClientStatus of a record, "none" when the key is absent
StatusShapes == {"none", "running", "pending", "failed"}

\* a record of the listing with the optional keys present or absent
Record(id, status, tasks, optional) ==
    LET base  == [ID |-> id]
        st    == IF status = "none" THEN base
                 ELSE base @@ [ClientStatus |-> <<status>>]
        ts    == IF tasks = "none" THEN st
                 ELSE IF tasks = "null" THEN st @@ [TaskStates |-> JsonNull]
                 ELSE st @@ [TaskStates |-> JsonDict(SubSeq(TaskNames, 1, DictSize[tasks]))]
    IN  IF optional
        THEN ts @@ [JobID |-> <<"web">>, TaskGroup |-> <<"api">>,
                    Namespace |-> <<"prod">>, NodeID |-> <<"n1">>]
        ELSE ts

\* the shapes of record the mapper specification enumerates: every status
\* with every TaskStates, and the records that yield targets also without
\* their optional keys
Shapes ==
    (StatusShapes \X TaskShapes \X {TRUE})
    \cup {<<"running", "dict1", FALSE>>, <<"pending", "dict2", FALSE>>,
          <<"running", "none", FALSE>>}

\* a record without one of its keys
Without(r, key) == [k \in DOMAIN r \ {key} |-> r[k]]

\* the keys generate_alloy_targets reads with a default of its own
OptionalKeys == {"JobID", "TaskGroup", "Namespace"}

\* the records of the given id: one of each shape, and a running record with
\* one task that lacks exactly one optional key
RecordsOf(id) ==
    {Record(id, sh[1], sh[2], sh[3]) : sh \in Shapes}
    \cup {Without(Record(id, "running", "dict1", TRUE), k) : k \in OptionalKeys}

\* the listings of at most n records, ids by position
RECURSIVE ListingsUpTo(_)
ListingsUpTo(n) ==
    IF n = 0 THEN {<<>>}
    ELSE LET shorter == ListingsUpTo(n - 1)
         IN  shorter \cup
             {Append(l, r) :
                 l \in {m \in shorter : Len(m) = n - 1}, r \in RecordsOf(AllocIds[n])}

\* the listings the life-cycle specification draws from: none, one running
\* allocation, a failed one beside a pending one with two tasks and no
\* optional key, and a running one beside one whose TaskStates is null
CycleListings ==
    { <<>>,
      <<Record(AllocIds[1], "running", "dict1", TRUE)>>,
      <<Record(AllocIds[1], "failed", "dict1", TRUE),
        Record(AllocIds[2], "pending", "dict2", FALSE)>>,
      <<Record(AllocIds[1], "running", "dict1", TRUE),
        Record(AllocIds[2], "pending", "null", TRUE)>> }

\* values of REFRESH_INTERVAL: below, and above, the 5 second sub-wait
RefreshIntervals == {3, 12}

----------------------------------------------------------------------------
(* The process: main(), lines 221-282, after the handlers are installed *)

\* line 267: the sub-wait of the interruptible sleep, in seconds
SubWait == 5

Min(a, b) == IF a < b THEN a ELSE b

\* no URL is being split
UrlIdle ==
    /\ url = <<>>
    /\ unix_socket_path = <<>>
    /\ url_path = <<>>
    /\ url_phase = "idle"

\* the state of main() at line 236, before the node id is resolved
ProcessAtStart ==
    /\ running = TRUE
    /\ pc = "start"
    /\ node_id = <<>>
    /\ iteration = 0
    /\ allocations = JsonList(<<>>)
    /\ targets = <<>>
    /\ config_lines = <<>>
    /\ sleep_remaining = 0
    /\ sleep_time = 0
    /\ file = NoFile
    /\ file_before = NoFile
    /\ exit_code = -1
    /\ stdout = {"Starting"}
    /\ stderr = {}
    /\ detail_requests = 0
    /\ listing_requests = <<>>
    /\ listing_failed = FALSE
    /\ signal_pc = "none"
    /\ waited = 0

Init ==
    /\ CONTINUOUS_MODE \in BOOLEAN
    /\ REFRESH_INTERVAL \in RefreshIntervals
    /\ ProcessAtStart
    /\ label_value = <<>>
    /\ label_escaped = <<>>
    /\ label_phase = "idle"
    /\ UrlIdle

\* the variables of the escaping specification
labelVars == <<label_value, label_escaped, label_phase>>

\* the variables of the URL specification
urlVars == <<url, unix_socket_path, url_path, url_phase>>

\* the configuration, which nothing assigns after start-up
configVars == <<CONTINUOUS_MODE, REFRESH_INTERVAL>>

\* sys.exit(code): the process ends with that status
Exit(code) == pc' = "exited" /\ exit_code' = code

\* lines 72-76: the handler prints and clears the flag, whatever main() is
\* doing; CPython runs it between two statements of main()
signal_handler ==
    /\ pc # "exited"
    /\ running' = FALSE
    /\ stdout' = stdout \cup {"Received signal"}
    /\ signal_pc' = IF signal_pc = "none" THEN pc ELSE signal_pc
    /\ UNCHANGED <<configVars, pc, node_id, iteration, allocations, targets,
                   sleep_remaining, sleep_time, file, file_before, exit_code,
                   stderr, detail_requests, listing_requests, listing_failed,
                   waited, labelVars, urlVars, config_lines>>

\* get_node_id answering "" on an error, as get_node_allocations answers []
ResolveNodeIdSwallowingErrors ==
    /\ pc = "start"
    /\ detail_requests' = detail_requests + 1
    /\ \/ /\ stderr' = stderr \cup {"HTTP request error", "Error getting node ID"}
          /\ node_id' = <<>>
          /\ UNCHANGED stdout
       \/ /\ \E n \in NodeIds \cup {<<>>} : node_id' = n
          /\ stdout' = stdout \cup {"Running on node"}
          /\ UNCHANGED stderr
    /\ pc' = "loop_top"
    /\ UNCHANGED <<configVars, running, iteration, allocations, targets,
                   sleep_remaining, sleep_time, file, file_before, exit_code,
                   listing_requests, listing_failed, signal_pc, waited, labelVars, urlVars, config_lines>>

\* lines 237-238 with get_node_id, lines 105-114
ResolveNodeId ==
    /\ pc = "start"
    /\ detail_requests' = detail_requests + 1
    /\ \/ \* make_http_request raises: lines 100-102, then 112-114
          /\ stderr' = stderr \cup {"HTTP request error", "Error getting node ID"}
          /\ Exit(1)
          /\ UNCHANGED <<node_id, stdout>>
       \/ \* the body is JSON but no object: alloc_data.get raises, lines 112-114
          /\ stderr' = stderr \cup {"Error getting node ID"}
          /\ Exit(1)
          /\ UNCHANGED <<node_id, stdout>>
       \/ \* an object: NodeID, or "" when the key is absent, line 111
          /\ \E n \in NodeIds \cup {<<>>} : node_id' = n
          /\ stdout' = stdout \cup {"Running on node"}
          /\ pc' = "loop_top"
          /\ UNCHANGED <<stderr, exit_code>>
    /\ UNCHANGED <<configVars, running, iteration, allocations, targets,
                   sleep_remaining, sleep_time, file, file_before,
                   listing_requests, listing_failed, signal_pc, waited, labelVars, urlVars, config_lines>>

\* line 242 as "while True": the flag is not read before a cycle
LoopTopIgnoringFlag ==
    /\ pc = "loop_top"
    /\ iteration < MaxIterations
    /\ iteration' = iteration + 1
    /\ stdout' = stdout \cup {"Iteration"}
    /\ pc' = "fetch"
    /\ UNCHANGED <<configVars, running, node_id, allocations, targets,
                   sleep_remaining, sleep_time, file, file_before, exit_code,
                   stderr, detail_requests, listing_requests, listing_failed,
                   signal_pc, waited, labelVars, urlVars, config_lines>>

\* line 242 with get_node_id called inside the loop, once per cycle
LoopTopResolvingAgain ==
    /\ pc = "loop_top"
    /\ \/ /\ running
          /\ iteration < MaxIterations
          /\ iteration' = iteration + 1
          /\ detail_requests' = detail_requests + 1
          /\ stdout' = stdout \cup {"Iteration"}
          /\ pc' = "fetch"
          /\ UNCHANGED exit_code
       \/ /\ ~running
          /\ stdout' = stdout \cup {"stopped"}
          /\ Exit(0)
          /\ UNCHANGED <<iteration, detail_requests>>
    /\ UNCHANGED <<configVars, running, node_id, allocations, targets,
                   sleep_remaining, sleep_time, file, file_before, stderr,
                   listing_requests, listing_failed, signal_pc, waited, labelVars, urlVars, config_lines>>

\* line 242, then lines 244-245 or line 282
LoopTop ==
    /\ pc = "loop_top"
    /\ \/ /\ running
          /\ iteration < MaxIterations
          /\ iteration' = iteration + 1
          /\ stdout' = stdout \cup {"Iteration"}
          /\ pc' = "fetch"
          /\ UNCHANGED exit_code
       \/ /\ ~running
          /\ stdout' = stdout \cup {"stopped"}
          /\ Exit(0)
          /\ UNCHANGED iteration
    /\ UNCHANGED <<configVars, running, node_id, allocations, targets,
                   sleep_remaining, sleep_time, file, file_before, stderr,
                   detail_requests, listing_requests, listing_failed, signal_pc,
                   waited, labelVars, urlVars, config_lines>>

\* lines 121-123 with the list of the cycle before kept instead of []
ListingOnErrorStale == allocations

\* lines 121-123: what get_node_allocations returns when the request raises
ListingOnError == JsonList(<<>>)

\* lines 248-249 with get_node_allocations, lines 117-123
FetchAllocations ==
    /\ pc = "fetch"
    /\ listing_requests' = Append(listing_requests, node_id)
    /\ \/ \* make_http_request raises: lines 100-102, then 121-123
          /\ allocations' = ListingOnError
          /\ listing_failed' = TRUE
          /\ stderr' = stderr \cup {"HTTP request error", "Error getting node allocations"}
          /\ stdout' = stdout \cup {"Found allocations"}
          /\ pc' = "map"
       \/ \* a JSON list
          /\ \E l \in CycleListings : allocations' = JsonList(l)
          /\ listing_failed' = FALSE
          /\ stdout' = stdout \cup {"Found allocations"}
          /\ pc' = "map"
          /\ UNCHANGED stderr
       \/ \* the body is JSON null: len(allocations) raises at line 249
          /\ allocations' = JsonNull
          /\ listing_failed' = FALSE
          /\ pc' = "except"
          /\ UNCHANGED <<stdout, stderr>>
    /\ UNCHANGED <<configVars, running, node_id, iteration, targets,
                   sleep_remaining, sleep_time, file, file_before, exit_code,
                   detail_requests, signal_pc, waited, labelVars, urlVars, config_lines>>

\* line 252
MapTargets ==
    /\ pc = "map"
    /\ LET result == generate_alloy_targets(allocations.items)
       IN  IF result.raised
           THEN pc' = "except" /\ UNCHANGED targets
           ELSE pc' = "write" /\ targets' = result.targets
    /\ UNCHANGED <<configVars, running, node_id, iteration, allocations,
                   sleep_remaining, sleep_time, file, file_before, exit_code,
                   stdout, stderr, detail_requests, listing_requests,
                   listing_failed, signal_pc, waited, labelVars, urlVars, config_lines>>

\* lines 216-218: any exception of write_discovery_file ends the process
WriteError ==
    /\ stderr' = stderr \cup {"Error writing module file"}
    /\ Exit(1)

\* lines 179-212: mkdir, the text of lines 183-209, then open(output_path, 'w')
\* truncates
WriteOpen ==
    /\ pc = "write"
    /\ file_before' = file
    /\ \/ \* mkdir raises
          WriteError /\ UNCHANGED <<file, config_lines>>
       \/ \* open raises
          /\ config_lines' = ConfigLines(targets)
          /\ WriteError
          /\ UNCHANGED file
       \/ /\ config_lines' = ConfigLines(targets)
          /\ file' = FileOf(<<>>)
          /\ pc' = "write_data"
          /\ UNCHANGED <<stderr, exit_code>>
    /\ UNCHANGED <<configVars, running, node_id, iteration, allocations, targets,
                   sleep_remaining, sleep_time, stdout, detail_requests,
                   listing_requests, listing_failed, signal_pc, waited, labelVars, urlVars>>

\* line 213: f.write hands the text to the buffer, which may flush a part of it
WriteData ==
    /\ pc = "write_data"
    /\ \E k \in 0..Len(config_lines) :
          file' = FileOf(SubSeq(config_lines, 1, k))
    /\ \/ pc' = "write_close" /\ UNCHANGED <<stderr, exit_code>>
       \/ \* the write raises (disk full, I/O error)
          WriteError
    /\ UNCHANGED <<configVars, running, node_id, iteration, allocations, targets,
                   sleep_remaining, sleep_time, file_before, stdout,
                   detail_requests, listing_requests, listing_failed, signal_pc,
                   waited, labelVars, urlVars, config_lines>>

\* line 212 with mode 'a': the new text lands after what the file held
WriteCloseAppending ==
    /\ pc = "write_close"
    /\ \/ /\ file' = FileOf(file_before.lines \o config_lines)
          /\ stdout' = stdout \cup {"Generated targets"}
          /\ pc' = "written"
          /\ UNCHANGED <<stderr, exit_code>>
       \/ WriteError /\ UNCHANGED <<file, stdout>>
    /\ UNCHANGED <<configVars, running, node_id, iteration, allocations, targets,
                   sleep_remaining, sleep_time, file_before, detail_requests,
                   listing_requests, listing_failed, signal_pc, waited, labelVars, urlVars, config_lines>>

\* the end of the with block of line 212, then line 215
WriteClose ==
    /\ pc = "write_close"
    /\ \/ /\ file' = FileOf(config_lines)
          /\ stdout' = stdout \cup {"Generated targets"}
          /\ pc' = "written"
          /\ UNCHANGED <<stderr, exit_code>>
       \/ \* the flush of close raises
          WriteError /\ UNCHANGED <<file, stdout>>
    /\ UNCHANGED <<configVars, running, node_id, iteration, allocations, targets,
                   sleep_remaining, sleep_time, file_before, detail_requests,
                   listing_requests, listing_failed, signal_pc, waited, labelVars, urlVars, config_lines>>

\* lines 257-265 without the break of lines 260-262
AfterWriteAlwaysSleeps ==
    /\ pc = "written"
    /\ stdout' = stdout \cup {"generated successfully"}
    /\ sleep_remaining' = REFRESH_INTERVAL
    /\ pc' = "sleep_check"
    /\ UNCHANGED <<configVars, running, node_id, iteration, allocations, targets,
                   sleep_time, file, file_before, exit_code, stderr,
                   detail_requests, listing_requests, listing_failed, signal_pc,
                   waited, labelVars, urlVars, config_lines>>

\* lines 257-265
AfterWrite ==
    /\ pc = "written"
    /\ IF ~CONTINUOUS_MODE
       THEN /\ stdout' = stdout \cup {"generated successfully", "Single run mode", "stopped"}
            /\ Exit(0)
            /\ UNCHANGED sleep_remaining
       ELSE /\ stdout' = stdout \cup {"generated successfully"}
            /\ sleep_remaining' = REFRESH_INTERVAL
            /\ pc' = "sleep_check"
            /\ UNCHANGED exit_code
    /\ UNCHANGED <<configVars, running, node_id, iteration, allocations, targets,
                   sleep_time, file, file_before, stderr, detail_requests,
                   listing_requests, listing_failed, signal_pc, waited, labelVars, urlVars, config_lines>>

\* line 266 without the test of the flag
SleepGoesOnIgnoringFlag == sleep_remaining > 0

\* line 266: while sleep_remaining > 0 and running
SleepGoesOn == sleep_remaining > 0 /\ running

\* lines 266-267: the test of the inner loop and the length of the next sub-wait
SleepCheck ==
    /\ pc = "sleep_check"
    /\ IF SleepGoesOn
       THEN sleep_time' = Min(SubWait, sleep_remaining) /\ pc' = "sleeping"
       ELSE pc' = "loop_top" /\ UNCHANGED sleep_time
    /\ UNCHANGED <<configVars, running, node_id, iteration, allocations, targets,
                   sleep_remaining, file, file_before, exit_code, stdout, stderr,
                   detail_requests, listing_requests, listing_failed, signal_pc,
                   waited, labelVars, urlVars, config_lines>>

\* lines 268-269: time.sleep(sleep_time) returns; a handled signal does not cut it short
SleepWake ==
    /\ pc = "sleeping"
    /\ sleep_remaining' = sleep_remaining - sleep_time
    /\ waited' = IF running THEN waited ELSE waited + sleep_time
    /\ pc' = "sleep_check"
    /\ UNCHANGED <<configVars, running, node_id, iteration, allocations, targets,
                   sleep_time, file, file_before, exit_code, stdout, stderr,
                   detail_requests, listing_requests, listing_failed, signal_pc,
                   labelVars, urlVars, config_lines>>

\* lines 274-279
HandleException ==
    /\ pc = "except"
    /\ stderr' = stderr \cup {"Error in main loop"}
    /\ IF ~CONTINUOUS_MODE
       THEN Exit(1) /\ UNCHANGED stdout
       ELSE /\ stdout' = stdout \cup {"Retrying"}
            /\ pc' = "retry_sleep"
            /\ UNCHANGED exit_code
    /\ UNCHANGED <<configVars, running, node_id, iteration, allocations, targets,
                   sleep_remaining, sleep_time, file, file_before,
                   detail_requests, listing_requests, listing_failed, signal_pc,
                   waited, labelVars, urlVars, config_lines>>

\* line 280: time.sleep(REFRESH_INTERVAL) returns
RetryWake ==
    /\ pc = "retry_sleep"
    /\ waited' = IF running THEN waited ELSE waited + REFRESH_INTERVAL
    /\ pc' = "loop_top"
    /\ UNCHANGED <<configVars, running, node_id, iteration, allocations, targets,
                   sleep_remaining, sleep_time, file, file_before, exit_code,
                   stdout, stderr, detail_requests, listing_requests,
                   listing_failed, signal_pc, labelVars, urlVars, config_lines>>

Next ==
    \/ signal_handler
    \/ ResolveNodeId
    \/ LoopTop
    \/ FetchAllocations
    \/ MapTargets
    \/ WriteOpen
    \/ WriteData
    \/ WriteClose
    \/ AfterWrite
    \/ SleepCheck
    \/ SleepWake
    \/ HandleException
    \/ RetryWake

Spec == Init /\ [][Next]_vars

\* the steps of main(): every statement, request and sleep
MainStep ==
    \/ ResolveNodeId
    \/ LoopTop
    \/ FetchAllocations
    \/ MapTargets
    \/ WriteOpen
    \/ WriteData
    \/ WriteClose
    \/ AfterWrite
    \/ SleepCheck
    \/ SleepWake
    \/ HandleException
    \/ RetryWake

\* main() keeps running: every request (10 second timeout, lines 94 and 98)
\* and every time.sleep returns, so a step of main() that can be taken is taken
LiveSpec == Spec /\ WF_vars(MainStep)

----------------------------------------------------------------------------
(* The mapper and the renderer on every listing of at most MaxAllocs records: *)
(* one cycle of main() from the point where the listing has been fetched      *)

InitMapper ==
    /\ CONTINUOUS_MODE = TRUE
    /\ REFRESH_INTERVAL = 3
    /\ running = TRUE
    /\ pc = "map"
    /\ node_id = <<"n1">>
    /\ iteration = 1
    /\ \E l \in ListingsUpTo(MaxAllocs) : allocations = JsonList(l)
    /\ targets = <<>>
    /\ config_lines = <<>>
    /\ sleep_remaining = 0
    /\ sleep_time = 0
    /\ file = NoFile
    /\ file_before = NoFile
    /\ exit_code = -1
    /\ stdout = {"Starting", "Running on node", "Iteration", "Found allocations"}
    /\ stderr = {}
    /\ detail_requests = 1
    /\ listing_requests = << <<"n1">> >>
    /\ listing_failed = FALSE
    /\ signal_pc = "none"
    /\ waited = 0
    /\ label_value = <<>>
    /\ label_escaped = <<>>
    /\ label_phase = "idle"
    /\ UrlIdle

NextMapper ==
    \/ MapTargets
    \/ WriteOpen
    \/ WriteData
    \/ WriteClose

SpecMapper == InitMapper /\ [][NextMapper]_vars

----------------------------------------------------------------------------
(* The escaping of line 201 on every label value of at most MaxLen characters *)

InitEscape ==
    /\ CONTINUOUS_MODE = TRUE
    /\ REFRESH_INTERVAL = 3
    /\ ProcessAtStart
    /\ label_value \in StringsUpTo(MaxLen)
    /\ label_escaped = <<>>
    /\ label_phase = "raw"
    /\ UrlIdle

\* line 201: escaped_value = str(value).replace(...).replace(...)
EscapeLabel ==
    /\ label_phase = "raw"
    /\ label_escaped' = Escape(label_value)
    /\ label_phase' = "escaped"
    /\ UNCHANGED <<configVars, running, pc, node_id, iteration, allocations,
                   targets, sleep_remaining, sleep_time, file, file_before,
                   exit_code, stdout, stderr, detail_requests, listing_requests,
                   listing_failed, signal_pc, waited, label_value, urlVars, config_lines>>

NextEscape == EscapeLabel

SpecEscape == InitEscape /\ [][NextEscape]_vars

----------------------------------------------------------------------------
(* The split of a unix:// URL in make_http_request, lines 84-93 *)

\* "unix://" and "/v1/", character by character
UnixScheme == <<"u", "n", "i", "x", ":", "/", "/">>
ApiSegment == <<"/", "v", "1", "/">>

\* the runs of characters the URLs of the specification are built from
UrlSegments == {ApiSegment, <<"s">>, <<"/">>, <<"v", "1", "/">>}

\* the texts made of at most n segments
RECURSIVE SegmentsUpTo(_)
SegmentsUpTo(n) ==
    IF n = 0 THEN {<<>>}
    ELSE LET shorter == SegmentsUpTo(n - 1)
         IN  shorter \cup {t \o g : t \in shorter, g \in UrlSegments}

\* str.find, counted from 1: the first place where sep starts in s, 0 if none
Find(s, sep) ==
    LET places == {i \in 1..(Len(s) - Len(sep) + 1) :
                       SubSeq(s, i, i + Len(sep) - 1) = sep}
    IN  IF places = {} THEN 0
        ELSE CHOOSE i \in places : \A j \in places : i <= j

\* str.split(sep): every occurrence of sep splits, left to right
RECURSIVE Split(_, _)
Split(s, sep) ==
    LET i == Find(s, sep)
    IN  IF i = 0 THEN <<s>>
        ELSE <<SubSeq(s, 1, i - 1)>> \o Split(SubSeq(s, i + Len(sep), Len(s)), sep)

\* line 86: url[7:]
url_without_scheme == SubSeq(url, Len(UnixScheme) + 1, Len(url))

InitUrl ==
    /\ CONTINUOUS_MODE = TRUE
    /\ REFRESH_INTERVAL = 3
    /\ ProcessAtStart
    /\ label_value = <<>>
    /\ label_escaped = <<>>
    /\ label_phase = "idle"
    /\ \E rest \in SegmentsUpTo(MaxSegments) : url = UnixScheme \o rest
    /\ unix_socket_path = <<>>
    /\ url_path = <<>>
    /\ url_phase = "raw"

\* lines 84-88; without a "/v1/" the index [1] of line 88 raises (lines 100-102)
SplitUnixUrl ==
    /\ url_phase = "raw"
    /\ SubSeq(url, 1, Len(UnixScheme)) = UnixScheme
    /\ LET parts == Split(url_without_scheme, ApiSegment)
       IN  \/ /\ Len(parts) >= 2
              /\ unix_socket_path' = parts[1]
              /\ url_path' = ApiSegment \o parts[2]
              /\ url_phase' = "split"
           \/ /\ Len(parts) < 2
              /\ unix_socket_path' = parts[1]
              /\ url_phase' = "raised"
              /\ UNCHANGED url_path
    /\ UNCHANGED <<configVars, running, pc, node_id, iteration, allocations,
                   targets, sleep_remaining, sleep_time, file, file_before,
                   exit_code, stdout, stderr, detail_requests, listing_requests,
                   listing_failed, signal_pc, waited, labelVars, url,
                   config_lines>>

NextUrl == SplitUnixUrl

SpecUrl == InitUrl /\ [][NextUrl]_vars

----------------------------------------------------------------------------
(* Properties *)

\* positions of main() inside write_discovery_file, after the file is opened
WritePcs == {"write_data", "write_close", "written"}

\* positions of main() inside one cycle, before its write has ended
CyclePcs == {"fetch", "map", "write", "write_data", "write_close"}

\* positions of main() in the sleep that follows a completed cycle
SleepPcs == {"sleep_check", "sleeping"}

\* the complete rendering of no target at all
EmptyRendering == FileOf(HeaderLines \o FooterLines)

\* C1: during and after write_discovery_file, also when it fails part-way, a
\* reader of the output file finds either the complete content it had before
\* the write or the complete new rendering, never an empty or a partial one.
C1_ReaderSeesCompleteFile ==
    (pc \in WritePcs \/ "Error writing module file" \in stderr)
        => file \in {file_before, FileOf(ConfigLines(targets))}

\* C2: in continuous mode no failure of a cycle is fatal: once the loop has
\* begun, the process ends only by the graceful stop, with status 0.
C2_ContinuousCycleFailureNotFatal ==
    (CONTINUOUS_MODE /\ iteration >= 1 /\ pc = "exited") => exit_code = 0

\* C3: when the listing request of a cycle fails, get_node_allocations
\* answers the empty list and the cycle does not fail: no exception reaches
\* main, the targets are none, the file the cycle writes is the complete
\* rendering of no target, and in continuous mode the process goes on (it ends
\* only by a requested stop, or by a failure of the write itself).
C3_ListingFailureDegradesToEmpty ==
    listing_failed =>
        /\ allocations = JsonList(<<>>)
        /\ pc \notin {"except", "retry_sleep"}
        /\ pc \in {"write"} \cup WritePcs => targets = <<>>
        /\ pc \in {"written", "sleep_check", "sleeping", "loop_top", "fetch"}
              => file = EmptyRendering
        /\ (CONTINUOUS_MODE /\ pc = "exited")
              => \/ ~running /\ exit_code = 0 /\ file = EmptyRendering
                 \/ "Error writing module file" \in stderr

\* C3 witness: in continuous mode the second cycle's listing failed, its write
\* replaced the targets of the first cycle by the complete rendering of no
\* target, and the loop is back at its head, still running.
C3_Witness ==
    /\ CONTINUOUS_MODE
    /\ listing_failed
    /\ running
    /\ pc = "loop_top"
    /\ iteration = 2
    /\ file = EmptyRendering
    /\ file_before # NoFile
    /\ file_before # EmptyRendering

\* C4: in single-shot mode a failed listing request makes the process exit
\* with a non-zero status.
C4_SingleShotListingFailureExitsNonZero ==
    (~CONTINUOUS_MODE /\ listing_failed /\ pc = "exited") => exit_code # 0

\* C5: when the first signal arrives in the sleep that follows a completed
\* cycle, the loop sleeps at most one more sub-wait (at most SubWait seconds),
\* stays in the sleep or stops with status 0, starts no further cycle, makes no
\* further request and leaves the output file as it was last written.
C5_SignalInSleepStopsWithinSubWait ==
    /\ [](signal_pc \in SleepPcs =>
            (/\ waited <= SubWait
             /\ pc \in SleepPcs \cup {"loop_top", "exited"}
             /\ pc = "exited" => exit_code = 0
             /\ file = FileOf(ConfigLines(targets))))
    /\ [][(signal_pc \in SleepPcs) =>
            (file' = file /\ iteration' = iteration
             /\ listing_requests' = listing_requests)]_vars

\* C5 witness: the signal came at the start of a full sub-wait of a sleep of
\* several sub-waits, and the process has stopped after that one sub-wait, the
\* file still holding the targets of the cycle.
C5_Witness ==
    /\ signal_pc = "sleeping"
    /\ pc = "exited"
    /\ waited = SubWait
    /\ sleep_remaining > 0
    /\ targets # <<>>
    /\ file = FileOf(ConfigLines(targets))

\* C6: once the flag is cleared no cycle is started, the first one included,
\* and a cycle in progress is not cut short: from inside a cycle the loop
\* does not stop, and when the signal came during the write of a cycle the
\* process that stops has left the complete rendering of that cycle's targets.
C6_NoNewCycleAfterSignal ==
    /\ [][~running => iteration' = iteration]_vars
    /\ [][(~running /\ pc \in CyclePcs) => ~(pc' = "exited" /\ exit_code' = 0)]_vars
    /\ []((signal_pc \in {"start", "loop_top"} /\ iteration = 0)
              => listing_requests = <<>> /\ file = NoFile)
    /\ []((pc = "exited" /\ exit_code = 0
           /\ signal_pc \in {"write", "write_data", "write_close"})
              => file = FileOf(ConfigLines(targets)))

\* C6 witness: the signal came while the first cycle was writing the file; the
\* write ran to its end and the process stopped before a second cycle.
C6_Witness ==
    /\ CONTINUOUS_MODE
    /\ signal_pc = "write_data"
    /\ pc = "exited"
    /\ exit_code = 0
    /\ iteration = 1
    /\ targets # <<>>
    /\ file = FileOf(ConfigLines(targets))

\* C7: when the allocation-detail request fails the process has exited with a
\* non-zero status before the loop: no cycle, no listing request, no write.
C7_NodeIdFailureIsFatal ==
    "Error getting node ID" \in stderr =>
        /\ pc = "exited"
        /\ exit_code > 0
        /\ iteration = 0
        /\ listing_requests = <<>>
        /\ file = NoFile

\* C7 witness: the request itself failed and the process has exited.
C7_Witness ==
    /\ "HTTP request error" \in stderr
    /\ "Error getting node ID" \in stderr
    /\ detail_requests = 1
    /\ pc = "exited"

----------------------------------------------------------------------------
(* Properties of the mapper and of the escaping *)

\* the records of the listing fetched by the cycle
Records == allocations.items

\* a record's status is running or pending (an absent status is neither)
StatusRunningOrPending(r) ==
    "ClientStatus" \in DOMAIN r /\ r.ClientStatus \in {<<"running">>, <<"pending">>}

\* the task names a record declares, none when it has no TaskStates
DeclaredTasks(r) ==
    IF "TaskStates" \in DOMAIN r /\ r.TaskStates.kind = "dict"
    THEN r.TaskStates.keys ELSE <<>>

\* text occurs in line
Occurs(text, line) ==
    \E i \in 1..(Len(line) - Len(text) + 1) :
        SubSeq(line, i, i + Len(text) - 1) = text

\* a line of the file lists the allocation id: it holds alloc_id = "<id>"
ListsAlloc(line, id) ==
    Occurs(<<"alloc_id", " = ", DQUOTE>> \o Escape(id) \o <<DQUOTE>>, line)

\* the number of targets with the given alloc_id, task and stream labels
CountTargets(tgts, id, task, stream) ==
    Cardinality({i \in 1..Len(tgts) :
        tgts[i].alloc_id = id /\ tgts[i].task = task /\ tgts[i].stream = stream})

\* C8: no target returned by generate_alloy_targets carries the alloc_id of a
\* record whose ClientStatus is not running or pending (or is absent), and no
\* line of the file written from the targets lists such an allocation.
C8_NoTargetForIneligibleAlloc ==
    \A i \in 1..Len(Records) :
        ~StatusRunningOrPending(Records[i]) =>
            /\ \A j \in 1..Len(targets) : targets[j].alloc_id # Records[i].ID
            /\ \A k \in 1..Len(file.lines) : ~ListsAlloc(file.lines[k], Records[i].ID)

\* C8 witness: the file is written from a listing that holds a failed record
\* with a task beside a running record with a task.
C8_Witness ==
    /\ pc = "written"
    /\ targets # <<>>
    /\ \E i \in 1..Len(Records) :
          /\ "ClientStatus" \in DOMAIN Records[i]
          /\ Records[i].ClientStatus = <<"failed">>
          /\ DeclaredTasks(Records[i]) # <<>>
    /\ \E k \in 1..Len(file.lines) : ListsAlloc(file.lines[k], targets[1].alloc_id)

RECURSIVE ReadBody(_, _)
ReadBody(text, value) ==
    IF text = <<>> THEN [ok |-> FALSE, value |-> value, rest |-> <<>>]
    ELSE IF Head(text) = DQUOTE THEN [ok |-> TRUE, value |-> value, rest |-> Tail(text)]
    ELSE IF Head(text) = BACKSLASH
         THEN IF Len(text) >= 2 /\ text[2] \in {BACKSLASH, DQUOTE}
              THEN ReadBody(Tail(Tail(text)), Append(value, text[2]))
              ELSE [ok |-> FALSE, value |-> value, rest |-> text]
    ELSE ReadBody(Tail(text), Append(value, Head(text)))

ReadQuoted(text) ==
    IF text # <<>> /\ Head(text) = DQUOTE THEN ReadBody(Tail(text), <<>>)
    ELSE [ok |-> FALSE, value |-> <<>>, rest |-> text]

\* every double quote of the text stands right after an odd run of backslashes
NoUnescapedQuote(text) ==
    \A i \in 1..Len(text) :
        text[i] = DQUOTE =>
            \E n \in 1..(i - 1) :
                /\ n % 2 = 1
                /\ \A k \in (i - n)..(i - 1) : text[k] = BACKSLASH
                /\ (i - n > 1 => text[i - n - 1] # BACKSLASH)

\* C10: the escaped form of a label value, written between double quotes, is
\* read back as exactly the value, the closing quote being the last character,
\* and the escaped form holds no unescaped double quote.
C10_EscapeRoundTrips ==
    label_phase = "escaped" =>
        LET read == ReadQuoted(<<DQUOTE>> \o label_escaped \o <<DQUOTE>>)
        IN  /\ read.ok
            /\ read.value = label_value
            /\ read.rest = <<>>
            /\ NoUnescapedQuote(label_escaped)

\* C10 witness: a value with a backslash right before a double quote.
C10_Witness ==
    /\ label_phase = "escaped"
    /\ label_value = <<"a", BACKSLASH, DQUOTE>>
    /\ label_escaped = <<"a", BACKSLASH, BACKSLASH, BACKSLASH, DQUOTE>>

\* the value a target label must carry for a key of the record
ExpectedLabel(r, key, default) == IF key \in DOMAIN r THEN r[key] ELSE default

\* C11: every target derived from a running or pending record carries the
\* record's Namespace, JobID and TaskGroup unchanged when the key is present,
\* and "default", "unknown" and "unknown" when it is absent.
C11_MissingFieldsDefault ==
    \A i \in 1..Len(Records) : \A j \in 1..Len(targets) :
        (StatusRunningOrPending(Records[i]) /\ targets[j].alloc_id = Records[i].ID) =>
            /\ targets[j].namespace = ExpectedLabel(Records[i], "Namespace", <<"default">>)
            /\ targets[j].job = ExpectedLabel(Records[i], "JobID", <<"unknown">>)
            /\ targets[j].task_group = ExpectedLabel(Records[i], "TaskGroup", <<"unknown">>)

\* C11 witness: the targets of a record that lacks only its Namespace, next to
\* those of a record that has every key.
C11_Witness ==
    /\ pc = "write"
    /\ Len(Records) = 2
    /\ DOMAIN Records[1] = {"ID", "ClientStatus", "TaskStates", "JobID",
                            "TaskGroup", "NodeID"}
    /\ "Namespace" \in DOMAIN Records[2]
    /\ Len(targets) = 4
    /\ targets[1].namespace = <<"default">>
    /\ targets[1].job = <<"web">>
    /\ targets[3].namespace = <<"prod">>

\* C12: in single-shot mode at most one cycle runs: the loop never sleeps or
\* waits for a retry, makes at most one listing request, and the step that
\* follows the end of the write, or the catch of an exception, ends the process.
C12_SingleShotRunsOneCycle ==
    /\ [](~CONTINUOUS_MODE =>
            (/\ iteration <= 1
             /\ Len(listing_requests) <= 1
             /\ pc \notin {"sleep_check", "sleeping", "retry_sleep"}
             /\ sleep_remaining = 0
             /\ waited = 0))
    /\ [][(~CONTINUOUS_MODE /\ pc \in {"written", "except"} /\ pc' # pc)
            => pc' = "exited"]_vars

\* C12 witness: in single-shot mode the only cycle failed in the mapper and
\* the process has ended after it.
C12_Witness ==
    /\ ~CONTINUOUS_MODE
    /\ pc = "exited"
    /\ iteration = 1
    /\ exit_code = 1
    /\ "Error in main loop" \in stderr

\* C13: the allocation-detail endpoint is requested exactly once, at start-up,
\* the node identity never changes afterwards, and every listing request of
\* every cycle carries that identity.
C13_NodeIdResolvedOnce ==
    /\ [](/\ detail_requests = (IF pc = "start" THEN 0 ELSE 1)
          /\ Len(listing_requests) <= iteration
          /\ \A i \in 1..Len(listing_requests) : listing_requests[i] = node_id)
    /\ [][(pc # "start") =>
            (node_id' = node_id /\ detail_requests' = detail_requests)]_vars

\* C13 witness: two cycles have each made their listing request with the node
\* identity of the single allocation-detail request.
C13_Witness ==
    /\ detail_requests = 1
    /\ node_id = <<"n1">>
    /\ iteration = 2
    /\ listing_requests = << <<"n1">>, <<"n1">> >>

\* positions of main() between the end of a cycle's write and the next cycle
AfterWritePcs == {"written", "sleep_check", "sleeping"}

\* C14: once a cycle has completed its write, the file is exactly the
\* rendering of the targets mapped from the listing fetched in that cycle:
\* header, one line per target, footer, and every allocation a line lists is a
\* running or pending record of that listing.
C14_FileMatchesLatestFetch ==
    pc \in AfterWritePcs =>
        LET mapped == generate_alloy_targets(Records)
        IN  /\ ~mapped.raised
            /\ file = FileOf(ConfigLines(mapped.targets))
            /\ Len(file.lines) = Len(HeaderLines) + Len(mapped.targets) + Len(FooterLines)
            /\ \A k \in 1..Len(file.lines) : \A n \in 1..Len(AllocIds) :
                  ListsAlloc(file.lines[k], AllocIds[n]) =>
                      \E i \in 1..Len(Records) :
                          /\ Records[i].ID = AllocIds[n]
                          /\ StatusRunningOrPending(Records[i])

\* C14 witness: the second cycle has written the targets of a listing in which
\* the allocation of the first cycle's file has failed; the file no longer
\* lists it.
C14_Witness ==
    /\ pc = "written"
    /\ iteration = 2
    /\ targets # <<>>
    /\ \E k \in 1..Len(file_before.lines) : ListsAlloc(file_before.lines[k], AllocIds[1])
    /\ \A k \in 1..Len(file.lines) : ~ListsAlloc(file.lines[k], AllocIds[1])
    /\ \E k \in 1..Len(file.lines) : ListsAlloc(file.lines[k], AllocIds[2])

\* C15: when the first signal arrives during the retry wait that follows a
\* failed cycle, the wait ends within one sub-wait: at most SubWait seconds
\* are slept after the signal.
C15_RetryWaitIsInterruptible ==
    signal_pc = "retry_sleep" => waited <= SubWait

\* C16: the step of the signal handler changes the shutdown flag and nothing
\* else of the program's state: not the node identity, the iteration counter,
\* the output file, nor what was printed to standard output and error.
C16_HandlerOnlySetsFlag ==
    [][(running /\ ~running') =>
          UNCHANGED <<configVars, pc, node_id, iteration, allocations, targets,
                      config_lines, sleep_remaining, sleep_time, file,
                      exit_code, stdout, stderr, detail_requests,
                      listing_requests>>]_vars

\* C18: generate_alloy_targets returns for every list of records: the mapping
\* step of a cycle never ends in an exception.
C18_MapperIsTotal ==
    pc = "except" => allocations.kind # "list"

\* C19: whenever a cycle runs, the node identity it uses is not empty.
C19_NodeIdNotEmpty ==
    iteration >= 1 => node_id # <<>>

\* C17: a unix:// URL that holds "/v1/" is split at its first "/v1/": the
\* socket path is what stands between the scheme and that place, the request
\* path is everything from that place to the end of the URL.
C17_SplitAtFirstApiSegment ==
    url_phase = "split" =>
        LET first == Find(url_without_scheme, ApiSegment)
        IN  /\ first > 0
            /\ unix_socket_path = SubSeq(url_without_scheme, 1, first - 1)
            /\ url_path = SubSeq(url_without_scheme, first, Len(url_without_scheme))

\* C20: when every request and every sleep returns, a process whose shutdown
\* flag has been cleared by a signal eventually ends, wherever main() was.
C20_TerminatesAfterSignal == ~running ~> (pc = "exited")

\* C20 witness: the signal came during the retry wait after a failed cycle
\* and the process has ended with status 0.
C20_Witness ==
    /\ ~running
    /\ signal_pc = "retry_sleep"
    /\ pc = "exited"
    /\ exit_code = 0

====
